---- MODULE Spec2Model ----
(***************************************************************************)
(* Model of jasmine_eth/sdk.py: the transaction lifecycle of               *)
(* Web3Wrapper.send_transaction and the SDK / TFCToken / TFCManager        *)
(* operations that delegate to it, running as cooperative tasks on one     *)
(* asyncio event loop against a chain node.                                *)
(***************************************************************************)
EXTENDS Integers, Sequences, FiniteSets, TLC

VARIABLES
    pc,           \* per call: position in the operation / send_transaction / transaction_task
    req,          \* per call: the operation invoked and its arguments
    intent,       \* per call: the TxParams dict as it was when send_transaction was called
    transaction,  \* per call: the TxParams dict (a function from present keys to values)
    signed_tx,    \* per call: signed_tx.rawTransaction, or None
    tx_hash,      \* per call: tx_hash local of transaction_task, or None
    future,       \* per call: the asyncio future created at line 23
    outcome,      \* per call: what the awaiting caller of the operation observed
    log,          \* per call: the collaborator calls made, in order, with their result
    ready,        \* event loop: FIFO queue of tasks ready to run
    running,      \* event loop: the task currently executing, or None
    txCount,      \* chain: number of mined transactions per address
    broadcast,    \* chain: raw transactions the node accepted, in order of arrival
    mined,        \* chain: raw transactions included in a block
    strategy      \* web3.eth gas price strategy currently configured

vars == <<pc, req, intent, transaction, signed_tx, tx_hash, future, outcome, log,
          ready, running, txCount, broadcast, mined, strategy>>

callVars == <<pc, req, intent, transaction, signed_tx, tx_hash, future, outcome, log>>
loopVars == <<ready, running>>
chainVars == <<txCount, broadcast, mined>>

-----------------------------------------------------------------------------
(* Bounds and input domains *)

\* Number of operations invoked on the loop in one run.
MaxCalls == 2

Calls == 1..MaxCalls

None == "None"

\* Accounts: an Account is identified by the address its private key derives.
Address == {"A", "B"}

TokenAddress == "TFCToken"

ManagerAddress == "TFCManager"

CompletedFields == {"gas", "gasPrice", "nonce"}

\* Values a caller puts into an intent it passes to send_transaction directly.
UserFields == [gas |-> 50, gasPrice |-> 9, nonce |-> 0]

Ops == {"send_transaction", "transfer", "token_transfer", "transfer_from",
        "approve", "claim_tfc"}

ContractOps == {"token_transfer", "transfer_from", "approve", "claim_tfc"}

\* The operations whose intent web3's buildTransaction produces.
BuiltOps == ContractOps \cup {"deploy_tfc_manager"}

\* TFCManager.bytecode(): the initialisation bytecode of the manager contract.
Bytecode == <<"TFCManager.bin">>

\* The empty address b'', which web3 puts in the `to` of the transaction it
\* builds for a constructor.
EmptyAddress == ""

\* What open() raises when TFCManager.abi() or TFCManager.bytecode() cannot read
\* its file under contracts/.
FileNotFoundError == [type |-> "FileNotFoundError", args |-> <<>>]

\* Exceptions the collaborators raise. Every JSON-RPC round trip can fail with a
\* connectivity error; the calls that execute or admit a transaction can also
\* fail with a node-reported error. Neither exception names the call.
ConnectionError == [type |-> "ConnectionError", args |-> <<>>]

ValueError == [type |-> "ValueError", args |-> <<>>]

RpcErrors(call) ==
    IF call \in {"buildTransaction", "estimateGas", "sendRawTransaction"}
    THEN {ConnectionError, ValueError}
    ELSE {ConnectionError}

\* The longest signature string, in hex digits after the "0x" prefix.
MaxSigLen == 3

\* Characters of a signature string: hex digits of both cases and one that is
\* not a hex digit.
SigChars == {"1", "a", "F", "g"}

Signatures == UNION {[1..n -> SigChars] : n \in 0..MaxSigLen}

\* A signature that is an even number of hex digits.
GoodSignature == <<"a", "1">>

Requests ==
    [op : {"send_transaction"}, sender : Address, sender_from : Address,
     recipient : {"B"}, present : SUBSET CompletedFields, signature : {<<>>}, object : {0}]
    \cup
    [op : (Ops \ {"send_transaction", "claim_tfc"}) \cup {"deploy_tfc_manager"},
     sender : Address, sender_from : {None}, recipient : {"B"}, present : {{}},
     signature : {<<>>}, object : {0}]
    \cup
    [op : {"claim_tfc"}, sender : Address, sender_from : {None}, recipient : {"B"},
     present : {{}}, signature : {GoodSignature}, object : {0}]

\* send_transaction called with an intent object that an earlier call was given:
\* object is the number of the call that was given it first (0: an object of the
\* call's own).
AgainRequests ==
    [op : {"send_transaction"}, sender : Address, sender_from : {None},
     recipient : {None}, present : {{}}, signature : {<<>>}, object : Calls]

\* claim_tfc with every signature string.
ClaimRequests ==
    [op : {"claim_tfc"}, sender : {"A"}, sender_from : {None}, recipient : {"B"},
     present : {{}}, signature : Signatures, object : {0}]

\* The request whose combinations with every other request are explored: a
\* native transfer from account A, for which every field is completed from the
\* chain.
CoreRequests == {r \in Requests : r.op = "transfer" /\ r.sender = "A"}

CallerTask(c) == <<"caller", c>>

TransactionTask(c) == <<"transaction_task", c>>

\* No task is executing: the loop is between two callbacks.
NoTask == <<>>

-----------------------------------------------------------------------------
(* Collaborators *)

\* Account.address (line 61): the address derived from the account's key.
AccountAddress(sender) == sender

\* eth.estimateGas result for an intent.
EstimateGas(tx) == IF "data" \in DOMAIN tx THEN 60 ELSE 21

\* rpc_gas_price_strategy: the node's eth_gasPrice.
RpcGasPrice == 2

\* eth.generateGasPrice under the configured strategy, with web3's fall-back to
\* eth.gasPrice when none is set: a strategy the application configured names its
\* own price.
GasPriceOf(s) == IF s = "custom" THEN 7 ELSE RpcGasPrice

\* Mutant: the signer signs with the key whatever `from` says.
SignOk_Unchecked(tx, sender) == TRUE

\* eth.account.sign_transaction: the raw transaction is the signed content.
\* A `from` that is not the key's address is refused (TypeError).
SignOk(tx, sender) == "from" \in DOMAIN tx => tx["from"] = AccountAddress(sender)

\* Mutant: the signer prices the transaction at the node's price, not at the
\* gasPrice the populated intent holds.
rawTransaction_NodePrice(tx, sender) ==
    [signer |-> AccountAddress(sender),
     to |-> IF "to" \in DOMAIN tx THEN tx["to"] ELSE None,
     value |-> IF "value" \in DOMAIN tx THEN tx["value"] ELSE 0,
     data |-> IF "data" \in DOMAIN tx THEN tx["data"] ELSE <<>>,
     gas |-> tx["gas"], gasPrice |-> RpcGasPrice, nonce |-> tx["nonce"]]

rawTransaction(tx, sender) ==
    [signer |-> AccountAddress(sender),
     to |-> IF "to" \in DOMAIN tx THEN tx["to"] ELSE None,
     value |-> IF "value" \in DOMAIN tx THEN tx["value"] ELSE 0,
     data |-> IF "data" \in DOMAIN tx THEN tx["data"] ELSE <<>>,
     gas |-> tx["gas"], gasPrice |-> tx["gasPrice"], nonce |-> tx["nonce"]]

\* The hash the node returns for a raw transaction.
TxHash(raw) == <<"0x", raw>>

Range(s) == {s[i] : i \in 1..Len(s)}

NodeKnows(raw) == raw \in Range(broadcast)

NodeMustReject(raw) == NodeKnows(raw) \/ raw.nonce < txCount[raw.signer]

\* The address of the contract a creation transaction deploys: derived from the
\* creator and its nonce.
ContractAddress(raw) == <<raw.signer, raw.nonce>>

\* The receipt of a mined transaction; contractAddress is None (the empty tuple)
\* unless the transaction created a contract.
\* A transaction without recipient, or with the empty address as recipient,
\* creates a contract.
IsCreation(raw) == raw.to \in {None, EmptyAddress}

Receipt(raw) ==
    [transactionHash |-> TxHash(raw), status |-> 1,
     contractAddress |-> IF IsCreation(raw) THEN ContractAddress(raw) ELSE <<>>]

\* Transactions accepted by the node and not yet in a block.
Pending == Range(broadcast) \ mined

\* Mutant: the count at block "pending", which reserves the nonces of the
\* address's transactions that wait in the pool.
getTransactionCount_Pending(address) ==
    txCount[address] + Cardinality({raw \in Pending : raw.signer = address})

\* eth.getTransactionCount(address), at the default block "latest": the number
\* of the address's transactions that are in a block.
getTransactionCount(address) == txCount[address]

\* Mutant: the receipt of the oldest mined transaction the node holds, whatever
\* hash was asked for.
waitForTransactionReceipt_First(h) ==
    Receipt(broadcast[CHOOSE i \in 1..Len(broadcast) :
                        /\ broadcast[i] \in mined
                        /\ \A j \in 1..(i - 1) : broadcast[j] \notin mined])

\* eth.waitForTransactionReceipt(tx_hash), once the transaction is in a block:
\* the receipt of the mined transaction that has this hash.
waitForTransactionReceipt(h) ==
    CHOOSE r \in {Receipt(raw) : raw \in mined} : r.transactionHash = h

IsMined(h) == \E raw \in mined : TxHash(raw) = h

-----------------------------------------------------------------------------
(* Python values *)

NoRequest == [op |-> None, sender |-> None, sender_from |-> None,
              recipient |-> None, present |-> {}, signature |-> <<>>, object |-> 0]

LowerDigits == <<"0", "1", "2", "3", "4", "5", "6", "7", "8", "9",
                 "a", "b", "c", "d", "e", "f">>

UpperDigits == <<"A", "B", "C", "D", "E", "F">>

HexDigits == Range(LowerDigits) \cup Range(UpperDigits)

HexValue(ch) ==
    IF ch \in Range(UpperDigits)
    THEN 9 + CHOOSE i \in 1..Len(UpperDigits) : UpperDigits[i] = ch
    ELSE (CHOOSE i \in 1..Len(LowerDigits) : LowerDigits[i] = ch) - 1

\* unhexlify accepts the digits of the string.
Decodable(hexstr) == \A i \in 1..Len(hexstr) : hexstr[i] \in HexDigits

\* web3.toBytes(hexstr=...), on the digits after the "0x" prefix: a string of
\* odd length is padded with a leading "0", then each pair of digits is a byte.
toBytes(hexstr) ==
    LET padded == IF Len(hexstr) % 2 = 1 THEN <<"0">> \o hexstr ELSE hexstr
    IN  [i \in 1..(Len(padded) \div 2) |->
            16 * HexValue(padded[2 * i - 1]) + HexValue(padded[2 * i])]

\* What unhexlify raises on a character that is not a hex digit.
HexError == [type |-> "binascii.Error", args |-> <<>>]

PendingFuture == [state |-> "pending", value |-> <<>>, sets |-> 0]

NoOutcome == [kind |-> "pending", value |-> <<>>]

\* asyncio.Future.set_result / set_exception: a pending future takes the value;
\* sets counts the calls made on the future.
set_result(f, r) ==
    IF f.state = "pending"
    THEN [state |-> "result", value |-> <<r>>, sets |-> f.sets + 1]
    ELSE [f EXCEPT !.sets = f.sets + 1]

set_exception(f, e) ==
    IF f.state = "pending"
    THEN [state |-> "exception", value |-> <<e>>, sets |-> f.sets + 1]
    ELSE [f EXCEPT !.sets = f.sets + 1]

Logged(c, call, ok) == [log EXCEPT ![c] = Append(@, [call |-> call, ok |-> ok])]

\* Mutant: the completion overwrites whatever the caller supplied.
NotIn_Always(k, tx) == TRUE

\* `k not in transaction` (lines 26, 28, 31).
NotIn(k, tx) == k \notin DOMAIN tx

\* The dict with key k set to v (transaction[k] = v).
SetItem(tx, k, v) == [x \in DOMAIN tx \cup {k} |-> IF x = k THEN v ELSE tx[x]]

-----------------------------------------------------------------------------
Init ==
    /\ pc = [c \in Calls |-> "idle"]
    /\ req = [c \in Calls |-> NoRequest]
    /\ intent = [c \in Calls |-> <<>>]
    /\ transaction = [c \in Calls |-> <<>>]
    /\ signed_tx = [c \in Calls |-> <<>>]
    /\ tx_hash = [c \in Calls |-> <<>>]
    /\ future = [c \in Calls |-> PendingFuture]
    /\ outcome = [c \in Calls |-> NoOutcome]
    /\ log = [c \in Calls |-> <<>>]
    /\ ready = <<>>
    /\ running = NoTask
    /\ txCount = [a \in Address |-> 0]
    /\ broadcast = <<>>
    /\ mined = {}
    /\ strategy = "unset"

-----------------------------------------------------------------------------
(* The event loop *)

\* Some task of the application starts an operation as a new task (create_task,
\* gather): it joins the ready queue. Calls are numbered in the order they start.
\* In one run at most one call takes its request from all of Requests; the calls
\* running beside it take theirs from CoreRequests.
Invoke(c, r) ==
    /\ running = NoTask
    /\ pc[c] = "idle"
    /\ \A d \in Calls : d < c => pc[d] # "idle"
    /\ r \in CoreRequests \/ \A d \in Calls \ {c} : req[d] \in CoreRequests \cup {NoRequest}
    /\ pc' = [pc EXCEPT ![c] = "queued"]
    /\ req' = [req EXCEPT ![c] = r]
    /\ ready' = Append(ready, CallerTask(c))
    /\ UNCHANGED <<intent, transaction, signed_tx, tx_hash, future, outcome, log,
                   running, txCount, broadcast, mined, strategy>>

\* Mutant: the loop runs the task that became ready last.
Dispatch_Lifo ==
    /\ running = NoTask
    /\ ready # <<>>
    /\ running' = ready[Len(ready)]
    /\ ready' = SubSeq(ready, 1, Len(ready) - 1)
    /\ UNCHANGED <<callVars, chainVars, strategy>>

\* The loop takes the oldest ready task and runs it until it suspends or ends.
Dispatch ==
    /\ running = NoTask
    /\ ready # <<>>
    /\ running' = Head(ready)
    /\ ready' = Tail(ready)
    /\ UNCHANGED <<callVars, chainVars, strategy>>

\* An exception leaves send_transaction and the operation awaiting it before the
\* background task exists: the caller's task ends with it.
Raise(c, call, e) ==
    /\ outcome' = [outcome EXCEPT ![c] = [kind |-> "raise", value |-> <<e>>]]
    /\ pc' = [pc EXCEPT ![c] = "done"]
    /\ log' = Logged(c, call, FALSE)
    /\ running' = NoTask

-----------------------------------------------------------------------------
(* The operations: building the intent *)

\* contract.functions.f(...).buildTransaction({"from": ...}): the call's intent,
\* with web3's transaction defaults (gas, gasPrice) filled in.
buildTransaction(to, data, sender) ==
    [from |-> AccountAddress(sender), to |-> to, data |-> data, value |-> 0,
     gas |-> EstimateGas([to |-> to, data |-> data]), gasPrice |-> GasPriceOf(strategy)]

\* contract.constructor().buildTransaction({"from": ...}): a creation intent.
\* web3 sets its data to the bytecode and its `to` to the empty address, and fills
\* in the same defaults.
constructorTransaction(bytecode, sender) ==
    [from |-> AccountAddress(sender), to |-> EmptyAddress, data |-> bytecode, value |-> 0,
     gas |-> EstimateGas([data |-> bytecode]), gasPrice |-> GasPriceOf(strategy)]

\* Mutant: send_transaction completes a copy of the intent, and the object of
\* the caller stays as it was passed the first time.
Content_Copied(o) == intent[o]

\* The content of the intent object first given to call o: what the last call
\* that was given the object left in it. (The calls run lines 25-35 one after the
\* other in the order they started, and nothing else writes the dict.)
Content(o) ==
    LET sharers == {d \in Calls : d = o \/ (req[d].object = o /\ transaction[d] # <<>>)}
    IN  transaction[CHOOSE d \in sharers : \A e \in sharers : e <= d]

\* The intent each operation hands to send_transaction: the caller's dict for a
\* direct call (an object used before holds what the earlier calls left in it),
\* a dict of its own making for the other operations.
Intent(r) ==
    CASE r.object # 0 -> Content(r.object)
      [] r.op = "send_transaction" ->
           [x \in {"from", "to", "value"} \cup r.present |->
              CASE x = "from" -> r.sender_from
                [] x = "to" -> r.recipient
                [] x = "value" -> 1
                [] OTHER -> UserFields[x]]
      [] r.op = "transfer" ->
           [from |-> AccountAddress(r.sender), to |-> r.recipient, value |-> 1]
      [] r.op = "token_transfer" ->
           buildTransaction(TokenAddress, <<"transfer", r.recipient, 1>>, r.sender)
      [] r.op = "transfer_from" ->
           buildTransaction(TokenAddress, <<"transferFrom", "A", r.recipient, 1>>, r.sender)
      [] r.op = "approve" ->
           buildTransaction(TokenAddress, <<"approve", r.recipient, 1>>, r.sender)
      [] r.op = "claim_tfc" ->
           buildTransaction(ManagerAddress, <<"claimTFC", 1, 0, toBytes(r.signature)>>,
                            r.sender)
      [] r.op = "deploy_tfc_manager" ->
           constructorTransaction(Bytecode, r.sender)

BuildTransaction(c) ==
    /\ running = CallerTask(c)
    /\ pc[c] = "queued"
    /\ \/ /\ Decodable(req[c].signature)
          /\ transaction' = [transaction EXCEPT ![c] = Intent(req[c])]
          /\ pc' = [pc EXCEPT ![c] = "gas"]
          /\ UNCHANGED <<outcome, log, running>>
       \/ /\ ~Decodable(req[c].signature)
          /\ Raise(c, "toBytes", HexError)
          /\ UNCHANGED transaction
       \/ /\ req[c].op = "deploy_tfc_manager"
          /\ \E f \in {"abi", "bytecode"} : Raise(c, f, FileNotFoundError)
          /\ UNCHANGED transaction
       \/ /\ Decodable(req[c].signature)
          /\ req[c].op \in BuiltOps
          /\ \E e \in RpcErrors("buildTransaction") : Raise(c, "buildTransaction", e)
          /\ UNCHANGED transaction
    /\ intent' = [intent EXCEPT ![c] = transaction'[c]]
    /\ UNCHANGED <<req, signed_tx, tx_hash, future, ready, chainVars, strategy>>

-----------------------------------------------------------------------------
(* Web3Wrapper.send_transaction: field completion and signing (lines 25-35) *)

\* if "gas" not in transaction: transaction["gas"] = eth.estimateGas(transaction)
CompleteGas(c) ==
    /\ running = CallerTask(c)
    /\ pc[c] = "gas"
    /\ \/ /\ ~NotIn("gas", transaction[c])
          /\ pc' = [pc EXCEPT ![c] = "gasPrice"]
          /\ UNCHANGED <<transaction, outcome, log, running>>
       \/ /\ NotIn("gas", transaction[c])
          /\ transaction' = [transaction EXCEPT
                                ![c] = SetItem(@, "gas", EstimateGas(@))]
          /\ pc' = [pc EXCEPT ![c] = "gasPrice"]
          /\ log' = Logged(c, "estimateGas", TRUE)
          /\ UNCHANGED <<outcome, running>>
       \/ /\ NotIn("gas", transaction[c])
          /\ \E e \in RpcErrors("estimateGas") : Raise(c, "estimateGas", e)
          /\ UNCHANGED transaction
    /\ UNCHANGED <<req, intent, signed_tx, tx_hash, future, ready, chainVars, strategy>>

\* if "gasPrice" not in transaction: setGasPriceStrategy(rpc_gas_price_strategy);
\* transaction["gasPrice"] = eth.generateGasPrice(transaction)
CompleteGasPrice(c) ==
    /\ running = CallerTask(c)
    /\ pc[c] = "gasPrice"
    /\ \/ /\ ~NotIn("gasPrice", transaction[c])
          /\ pc' = [pc EXCEPT ![c] = "nonce"]
          /\ UNCHANGED <<transaction, outcome, log, running, strategy>>
       \/ /\ NotIn("gasPrice", transaction[c])
          /\ strategy' = "rpc"
          /\ transaction' = [transaction EXCEPT
                                ![c] = SetItem(@, "gasPrice", RpcGasPrice)]
          /\ pc' = [pc EXCEPT ![c] = "nonce"]
          /\ log' = Logged(c, "generateGasPrice", TRUE)
          /\ UNCHANGED <<outcome, running>>
       \/ /\ NotIn("gasPrice", transaction[c])
          /\ strategy' = "rpc"
          /\ \E e \in RpcErrors("generateGasPrice") : Raise(c, "generateGasPrice", e)
          /\ UNCHANGED transaction
    /\ UNCHANGED <<req, intent, signed_tx, tx_hash, future, ready, chainVars>>

\* if "nonce" not in transaction:
\*     transaction["nonce"] = eth.getTransactionCount(sender.address)
CompleteNonce(c) ==
    /\ running = CallerTask(c)
    /\ pc[c] = "nonce"
    /\ \/ /\ ~NotIn("nonce", transaction[c])
          /\ pc' = [pc EXCEPT ![c] = "sign"]
          /\ UNCHANGED <<transaction, outcome, log, running>>
       \/ /\ NotIn("nonce", transaction[c])
          /\ transaction' = [transaction EXCEPT
                ![c] = SetItem(@, "nonce", getTransactionCount(AccountAddress(req[c].sender)))]
          /\ pc' = [pc EXCEPT ![c] = "sign"]
          /\ log' = Logged(c, "getTransactionCount", TRUE)
          /\ UNCHANGED <<outcome, running>>
       \/ /\ NotIn("nonce", transaction[c])
          /\ \E e \in RpcErrors("getTransactionCount") : Raise(c, "getTransactionCount", e)
          /\ UNCHANGED transaction
    /\ UNCHANGED <<req, intent, signed_tx, tx_hash, future, ready, chainVars, strategy>>

\* signed_tx = eth.account.sign_transaction(transaction, sender.private_key);
\* then loop.create_task(transaction_task()) and `await future`: the background
\* task joins the ready queue and the caller suspends.
SignTransaction(c) ==
    /\ running = CallerTask(c)
    /\ pc[c] = "sign"
    /\ \/ /\ SignOk(transaction[c], req[c].sender)
          /\ signed_tx' = [signed_tx EXCEPT
                              ![c] = <<rawTransaction(transaction[c], req[c].sender)>>]
          /\ log' = Logged(c, "sign_transaction", TRUE)
          /\ pc' = [pc EXCEPT ![c] = "send"]
          /\ ready' = Append(ready, TransactionTask(c))
          /\ running' = NoTask
          /\ UNCHANGED outcome
       \/ /\ ~SignOk(transaction[c], req[c].sender)
          /\ Raise(c, "sign_transaction", [type |-> "TypeError", args |-> <<>>])
          /\ UNCHANGED <<signed_tx, ready>>
    /\ UNCHANGED <<req, intent, transaction, tx_hash, future, chainVars, strategy>>

-----------------------------------------------------------------------------
(* transaction_task (lines 37-43) *)

\* Mutant: the handler records the error and lets the task try the send again.
Except_Retries(c, call, e) ==
    /\ log' = Logged(c, call, FALSE)
    /\ pc' = [pc EXCEPT ![c] = "send"]
    /\ UNCHANGED <<future, ready, running>>

\* Mutant: the handler sets the exception and the code after it resolves the
\* future again.
Except_ResolvesAgain(c, call, e) ==
    /\ future' = [future EXCEPT ![c] = set_result(set_exception(@, e), e)]
    /\ log' = Logged(c, call, FALSE)
    /\ pc' = [pc EXCEPT ![c] = "resolved"]
    /\ ready' = Append(ready, CallerTask(c))
    /\ running' = NoTask

\* Mutant: the handler swallows the exception and the task ends without
\* resolving the future.
Except_Swallows(c, call, e) ==
    /\ log' = Logged(c, call, FALSE)
    /\ pc' = [pc EXCEPT ![c] = "swallowed"]
    /\ running' = NoTask
    /\ UNCHANGED <<future, ready>>

\* except Exception as e: future.set_exception(e). The task ends; resolving the
\* future schedules the wake-up of the caller awaiting it.
Except(c, call, e) ==
    /\ future' = [future EXCEPT ![c] = set_exception(@, e)]
    /\ log' = Logged(c, call, FALSE)
    /\ pc' = [pc EXCEPT ![c] = "resolved"]
    /\ ready' = Append(ready, CallerTask(c))
    /\ running' = NoTask

\* tx_hash = eth.sendRawTransaction(signed_tx.rawTransaction)
SendRawTransaction(c) ==
    /\ running = TransactionTask(c)
    /\ pc[c] = "send"
    /\ \/ /\ ~NodeMustReject(signed_tx[c][1])
          /\ broadcast' = Append(broadcast, signed_tx[c][1])
          /\ tx_hash' = [tx_hash EXCEPT ![c] = <<TxHash(signed_tx[c][1])>>]
          /\ log' = Logged(c, "sendRawTransaction", TRUE)
          /\ pc' = [pc EXCEPT ![c] = "wait"]
          /\ UNCHANGED <<future, ready, running>>
       \/ /\ \E e \in RpcErrors("sendRawTransaction") : Except(c, "sendRawTransaction", e)
          /\ UNCHANGED <<broadcast, tx_hash>>
    /\ UNCHANGED <<req, intent, transaction, signed_tx, outcome, txCount, mined, strategy>>

\* receipt = eth.waitForTransactionReceipt(tx_hash); future.set_result(receipt).
\* The call returns once the transaction is in a block, and raises TimeExhausted
\* (naming the hash) when it is not after the timeout.
WaitForTransactionReceipt(c) ==
    /\ running = TransactionTask(c)
    /\ pc[c] = "wait"
    /\ \/ /\ IsMined(tx_hash[c][1])
          /\ future' = [future EXCEPT ![c] = set_result(@, waitForTransactionReceipt(tx_hash[c][1]))]
          /\ log' = Logged(c, "waitForTransactionReceipt", TRUE)
          /\ pc' = [pc EXCEPT ![c] = "resolved"]
          /\ ready' = Append(ready, CallerTask(c))
          /\ running' = NoTask
       \/ /\ ~IsMined(tx_hash[c][1])
          /\ Except(c, "waitForTransactionReceipt",
                    [type |-> "TimeExhausted", args |-> <<tx_hash[c][1]>>])
       \/ Except(c, "waitForTransactionReceipt", ConnectionError)
    /\ UNCHANGED <<req, intent, transaction, signed_tx, tx_hash, outcome, chainVars, strategy>>

\* Mutant: deploy_tfc_manager returns the transaction's hash.
Returned_Hash(op, receipt) ==
    CASE op = "send_transaction" -> <<receipt>>
      [] op = "deploy_tfc_manager" -> <<receipt.transactionHash>>
      [] OTHER -> <<>>

\* What the operation returns once send_transaction has returned the receipt:
\* send_transaction the receipt itself, deploy_tfc_manager the receipt's
\* contractAddress, the other operations nothing.
Returned(op, receipt) ==
    CASE op = "send_transaction" -> <<receipt>>
      [] op = "deploy_tfc_manager" -> <<receipt.contractAddress>>
      [] OTHER -> <<>>

\* `return await future` (line 46) resumes in the caller's task, and the
\* operation that awaited send_transaction finishes: send_transaction returns
\* the receipt, the other operations await it and return nothing.
Resume(c) ==
    /\ running = CallerTask(c)
    /\ pc[c] = "resolved"
    /\ outcome' = [outcome EXCEPT ![c] =
          IF future[c].state = "exception"
          THEN [kind |-> "raise", value |-> future[c].value]
          ELSE [kind |-> "return", value |-> Returned(req[c].op, future[c].value[1])]]
    /\ pc' = [pc EXCEPT ![c] = "done"]
    /\ running' = NoTask
    /\ UNCHANGED <<req, intent, transaction, signed_tx, tx_hash, future, log, ready,
                   chainVars, strategy>>

-----------------------------------------------------------------------------
(* The chain *)

\* The network includes a pending transaction in a block: the next one of its
\* signer by nonce.
Mine ==
    \E raw \in Pending :
        /\ raw.nonce = txCount[raw.signer]
        /\ mined' = mined \cup {raw}
        /\ txCount' = [txCount EXCEPT ![raw.signer] = @ + 1]
        /\ UNCHANGED <<callVars, loopVars, broadcast, strategy>>

-----------------------------------------------------------------------------
\* The steps of the calls that were invoked, and of the chain.
Run ==
    \/ Dispatch
    \/ \E c \in Calls : BuildTransaction(c)
    \/ \E c \in Calls : CompleteGas(c)
    \/ \E c \in Calls : CompleteGasPrice(c)
    \/ \E c \in Calls : CompleteNonce(c)
    \/ \E c \in Calls : SignTransaction(c)
    \/ \E c \in Calls : SendRawTransaction(c)
    \/ \E c \in Calls : WaitForTransactionReceipt(c)
    \/ \E c \in Calls : Resume(c)
    \/ Mine

Next ==
    \/ \E c \in Calls, r \in Requests : Invoke(c, r)
    \/ Run

Spec == Init /\ [][Next]_vars

-----------------------------------------------------------------------------
(* Progress *)

\* The code of call c that is executing takes its next step: every call to the
\* chain client returns or raises.
Step(c) ==
    \/ BuildTransaction(c)
    \/ CompleteGas(c)
    \/ CompleteGasPrice(c)
    \/ CompleteNonce(c)
    \/ SignTransaction(c)
    \/ SendRawTransaction(c)
    \/ WaitForTransactionReceipt(c)
    \/ Resume(c)

\* The event loop keeps running the tasks that are ready, and the task that is
\* running keeps executing (one thread: at most one of these steps is possible
\* at a time). Nothing is assumed of the chain: a transaction may never be mined,
\* and then the receipt wait times out.
Fairness == WF_vars(Dispatch \/ \E c \in Calls : Step(c))

\* The operations of one account: a native transfer, a contract call, a
\* deployment, and direct calls with none or all of the three fields supplied.
LiveRequests ==
    {r \in Requests :
        /\ r.sender = "A"
        /\ r.op \in {"send_transaction", "transfer", "approve", "deploy_tfc_manager"}
        /\ r.present \in {{}, CompletedFields}}

NextLive ==
    \/ \E c \in Calls, r \in LiveRequests : Invoke(c, r)
    \/ Run

FairSpec == Init /\ [][NextLive]_vars /\ Fairness

-----------------------------------------------------------------------------
(* Cancellation of the task that awaits an operation *)

CancelledError == [type |-> "CancelledError", args |-> <<>>]

\* asyncio.Future.cancel: a pending future becomes cancelled.
cancel(f) == IF f.state = "pending" THEN [f EXCEPT !.state = "cancelled"] ELSE f

\* Another task calls cancel() on the task that runs the operation of call c.
\* - The task has not started: its first step will throw CancelledError into it.
\* - The task is suspended in `await future` (line 46) and the future is pending:
\*   the future is cancelled and the task's wake-up is scheduled. The
\*   transaction_task created at line 45 is a task of its own and stays in the
\*   ready queue.
\* - The future is already resolved: the wake-up that is scheduled will throw
\*   CancelledError instead of delivering the future's value.
Cancel(c) ==
    /\ running = NoTask
    /\ \/ /\ pc[c] = "queued"
          /\ pc' = [pc EXCEPT ![c] = "cancel_queued"]
          /\ UNCHANGED <<future, ready>>
       \/ /\ pc[c] = "send"
          /\ future' = [future EXCEPT ![c] = cancel(@)]
          /\ pc' = [pc EXCEPT ![c] = "cancel_send"]
          /\ ready' = Append(ready, CallerTask(c))
       \/ /\ pc[c] = "resolved"
          /\ pc' = [pc EXCEPT ![c] = "cancel_resolved"]
          /\ UNCHANGED <<future, ready>>
    /\ UNCHANGED <<req, intent, transaction, signed_tx, tx_hash, outcome, log, running,
                   chainVars, strategy>>

\* set_result or set_exception on the cancelled future raises InvalidStateError.
\* Raised by set_result it is caught at line 42, and set_exception raises it
\* again; nothing catches that one and transaction_task ends with it.
TaskDies(c, call, ok, f) ==
    /\ future' = [future EXCEPT ![c] = f]
    /\ log' = [log EXCEPT ![c] = Append(Append(@, [call |-> call, ok |-> ok]),
                                        [call |-> "set_exception", ok |-> FALSE])]
    /\ pc' = [pc EXCEPT ![c] = "cancel_died"]
    /\ running' = NoTask

\* transaction_task of a call whose future was cancelled: nothing in the task
\* looks at the future before line 41, so sendRawTransaction runs as in any call.
SendRawTransactionCancelled(c) ==
    /\ running = TransactionTask(c)
    /\ pc[c] = "cancel_send"
    /\ \/ /\ ~NodeMustReject(signed_tx[c][1])
          /\ broadcast' = Append(broadcast, signed_tx[c][1])
          /\ tx_hash' = [tx_hash EXCEPT ![c] = <<TxHash(signed_tx[c][1])>>]
          /\ log' = Logged(c, "sendRawTransaction", TRUE)
          /\ pc' = [pc EXCEPT ![c] = "cancel_wait"]
          /\ UNCHANGED <<future, running>>
       \/ /\ \E e \in RpcErrors("sendRawTransaction") :
                TaskDies(c, "sendRawTransaction", FALSE, set_exception(future[c], e))
          /\ UNCHANGED <<broadcast, tx_hash>>
    /\ UNCHANGED <<req, intent, transaction, signed_tx, outcome, ready, txCount, mined, strategy>>

\* ... and so does the receipt wait, whose result or failure the cancelled future
\* refuses.
WaitForTransactionReceiptCancelled(c) ==
    /\ running = TransactionTask(c)
    /\ pc[c] = "cancel_wait"
    /\ \/ /\ IsMined(tx_hash[c][1])
          /\ TaskDies(c, "waitForTransactionReceipt", TRUE,
                      set_exception(set_result(future[c],
                                               waitForTransactionReceipt(tx_hash[c][1])),
                                    [type |-> "InvalidStateError", args |-> <<>>]))
       \/ /\ ~IsMined(tx_hash[c][1])
          /\ TaskDies(c, "waitForTransactionReceipt", FALSE,
                      set_exception(future[c],
                                    [type |-> "TimeExhausted", args |-> <<tx_hash[c][1]>>]))
       \/ TaskDies(c, "waitForTransactionReceipt", FALSE,
                   set_exception(future[c], ConnectionError))
    /\ UNCHANGED <<req, intent, transaction, signed_tx, tx_hash, outcome, ready, chainVars, strategy>>

\* The cancelled task runs for the last time: CancelledError is thrown into the
\* operation, which ends with it.
ThrowCancelled(c) ==
    /\ running = CallerTask(c)
    /\ pc[c] \in {"cancel_queued", "cancel_died", "cancel_resolved"}
    /\ outcome' = [outcome EXCEPT ![c] = [kind |-> "raise", value |-> <<CancelledError>>]]
    /\ pc' = [pc EXCEPT ![c] = "done"]
    /\ running' = NoTask
    /\ UNCHANGED <<req, intent, transaction, signed_tx, tx_hash, future, log, ready,
                   chainVars, strategy>>

NextCancel ==
    \/ Next
    \/ \E c \in Calls : Cancel(c)
    \/ \E c \in Calls : SendRawTransactionCancelled(c)
    \/ \E c \in Calls : WaitForTransactionReceiptCancelled(c)
    \/ \E c \in Calls : ThrowCancelled(c)

\* The operations with an application that may cancel the tasks awaiting them.
SpecCancel == Init /\ [][NextCancel]_vars

-----------------------------------------------------------------------------
(* Configuration of the shared chain client *)

\* The application configures a gas price strategy of its own on the client the
\* wrapper exposes: sdk.web3.eth.setGasPriceStrategy(custom).
ConfigureStrategy ==
    /\ running = NoTask
    /\ strategy # "custom"
    /\ strategy' = "custom"
    /\ UNCHANGED <<callVars, loopVars, chainVars>>

NextStrategy ==
    \/ Next
    \/ ConfigureStrategy

\* The operations with an application that configures its own pricing strategy.
SpecStrategy == Init /\ [][NextStrategy]_vars

-----------------------------------------------------------------------------
(* claim_tfc with arbitrary signature strings *)

NextClaim ==
    \/ \E c \in Calls, r \in ClaimRequests \cup CoreRequests : Invoke(c, r)
    \/ Run

SpecClaim == Init /\ [][NextClaim]_vars

-----------------------------------------------------------------------------
(* The read-only operations (lines 84-85, 133-134, 161-181) *)

TokenReads == {"name", "symbol", "decimals", "total_supply", "allowance",
               "token_balance_of"}

ReadOps == TokenReads \cup {"tfc_token_address", "balance_of"}

\* A read-only operation and its arguments: the owner or address asked about,
\* and the spender of an allowance.
ReadRequests ==
    [op : ReadOps \ {"allowance", "token_balance_of", "balance_of"}, sender : {None},
     sender_from : {None}, recipient : {None}, present : {{}}, signature : {<<>>}, object : {0}]
    \cup
    [op : {"token_balance_of", "balance_of"}, sender : Address,
     sender_from : {None}, recipient : {None}, present : {{}}, signature : {<<>>}, object : {0}]
    \cup
    [op : {"allowance"}, sender : Address,
     sender_from : {None}, recipient : Address, present : {{}}, signature : {<<>>}, object : {0}]

\* What the mined transactions have taken from an address, net of what they
\* have paid to it.
RECURSIVE Spent(_, _)
Spent(txs, address) ==
    IF txs = {}
    THEN 0
    ELSE LET raw == CHOOSE r \in txs : TRUE
         IN  (IF raw.signer = address THEN raw.value + raw.gas * raw.gasPrice ELSE 0)
             - (IF raw.to = address THEN raw.value ELSE 0)
             + Spent(txs \ {raw}, address)

\* eth.getBalance(address) at the latest block.
getBalance(address) == 1000 - Spent(mined, address)

\* The contract function each accessor calls, with its arguments.
FunctionOf(r) ==
    CASE r.op = "name" -> <<TokenAddress, "name">>
      [] r.op = "symbol" -> <<TokenAddress, "symbol">>
      [] r.op = "decimals" -> <<TokenAddress, "decimals">>
      [] r.op = "total_supply" -> <<TokenAddress, "totalSupply">>
      [] r.op = "allowance" -> <<TokenAddress, "allowance", r.sender, r.recipient>>
      [] r.op = "token_balance_of" -> <<TokenAddress, "balanceOf", r.sender>>
      [] r.op = "tfc_token_address" -> <<ManagerAddress, "tfcToken">>

\* Mutant: the accessor uses .transact(), which has the node sign and send the
\* function call as a transaction of its default account.
eth_call_Transact(c, fn) ==
    /\ broadcast' = Append(broadcast,
          [signer |-> "A", to |-> fn[1], value |-> 0, data |-> Tail(fn), gas |-> 60,
           gasPrice |-> RpcGasPrice, nonce |-> Len(broadcast)])
    /\ outcome' = [outcome EXCEPT ![c] = [kind |-> "return", value |-> <<fn>>]]
    /\ UNCHANGED <<txCount, mined>>

\* contract.functions.f(...).call(): an eth_call, which the node executes on the
\* state of the latest block without creating a transaction. The value is
\* whatever the contract answers there.
eth_call(c, fn) ==
    /\ outcome' = [outcome EXCEPT ![c] =
                      [kind |-> "return", value |-> <<<<fn, Cardinality(mined)>>>>]]
    /\ UNCHANGED chainVars

\* Some task of the application calls a read-only operation.
InvokeRead(c, r) ==
    /\ running = NoTask
    /\ pc[c] = "idle"
    /\ \A d \in Calls : d < c => pc[d] # "idle"
    /\ pc' = [pc EXCEPT ![c] = "read"]
    /\ req' = [req EXCEPT ![c] = r]
    /\ ready' = Append(ready, CallerTask(c))
    /\ UNCHANGED <<intent, transaction, signed_tx, tx_hash, future, outcome, log,
                   running, txCount, broadcast, mined, strategy>>

\* The accessor runs: one query to the node, whose answer it returns or whose
\* failure it raises.
ReadCall(c) ==
    /\ running = CallerTask(c)
    /\ pc[c] = "read"
    /\ \/ /\ req[c].op = "balance_of"
          /\ outcome' = [outcome EXCEPT ![c] =
                            [kind |-> "return", value |-> <<getBalance(req[c].sender)>>]]
          /\ log' = Logged(c, "getBalance", TRUE)
          /\ pc' = [pc EXCEPT ![c] = "done"]
          /\ running' = NoTask
          /\ UNCHANGED chainVars
       \/ /\ req[c].op # "balance_of"
          /\ eth_call(c, FunctionOf(req[c]))
          /\ log' = Logged(c, "eth_call", TRUE)
          /\ pc' = [pc EXCEPT ![c] = "done"]
          /\ running' = NoTask
       \/ /\ Raise(c, IF req[c].op = "balance_of" THEN "getBalance" ELSE "eth_call",
                   ConnectionError)
          /\ UNCHANGED chainVars
    /\ UNCHANGED <<req, intent, transaction, signed_tx, tx_hash, future, ready, strategy>>

NextRead ==
    \/ \E c \in Calls, r \in CoreRequests : Invoke(c, r)
    \/ \E c \in Calls, r \in ReadRequests : InvokeRead(c, r)
    \/ \E c \in Calls : ReadCall(c)
    \/ Run

\* Read-only operations beside native transfers.
SpecRead == Init /\ [][NextRead]_vars

-----------------------------------------------------------------------------
(* send_transaction called again with the same intent object *)

\* Some task of the application calls send_transaction with the dict it passed
\* to an earlier direct call.
InvokeAgain(c, r) ==
    /\ running = NoTask
    /\ pc[c] = "idle"
    /\ \A d \in Calls : d < c => pc[d] # "idle"
    /\ r.object < c
    /\ req[r.object].op = "send_transaction"
    /\ req[r.object].object = 0
    /\ pc' = [pc EXCEPT ![c] = "queued"]
    /\ req' = [req EXCEPT ![c] = r]
    /\ ready' = Append(ready, CallerTask(c))
    /\ UNCHANGED <<intent, transaction, signed_tx, tx_hash, future, outcome, log,
                   running, txCount, broadcast, mined, strategy>>

NextAgain ==
    \/ \E c \in Calls, r \in {q \in Requests : q.op = "send_transaction"} \cup CoreRequests :
          Invoke(c, r)
    \/ \E c \in Calls, r \in AgainRequests : InvokeAgain(c, r)
    \/ Run

\* Direct send_transaction calls, some of them on an intent object used before.
SpecAgain == Init /\ [][NextAgain]_vars

-----------------------------------------------------------------------------
(* Observations on a call *)

\* The collaborator calls send_transaction itself makes, one per stage.
Stages == <<"estimateGas", "generateGasPrice", "getTransactionCount",
            "sign_transaction", "sendRawTransaction", "waitForTransactionReceipt">>

StageSet == Range(Stages)

Entries(c, call) == {i \in 1..Len(log[c]) : log[c][i].call = call}

Succeeded(c, call) == \E i \in Entries(c, call) : log[c][i].ok

\* The stage of send_transaction that failed in call c, if any did.
FailedStages(c) == {log[c][i].call : i \in {j \in 1..Len(log[c]) : ~log[c][j].ok}} \cap StageSet

StageFailed(c) == FailedStages(c) # {}

\* The position of a collaborator call in the order of the code.
StageIndex(call) ==
    CASE call \in {"toBytes", "abi", "bytecode", "buildTransaction"} -> 0
      [] call = "estimateGas" -> 1
      [] call = "generateGasPrice" -> 2
      [] call = "getTransactionCount" -> 3
      [] call = "sign_transaction" -> 4
      [] call = "sendRawTransaction" -> 5
      [] call = "waitForTransactionReceipt" -> 6

\* The chain query that completes a field.
QueryOf(f) ==
    CASE f = "gas" -> "estimateGas"
      [] f = "gasPrice" -> "generateGasPrice"
      [] f = "nonce" -> "getTransactionCount"

\* The intent as the operation passed it to send_transaction.
Passed(c) == intent[c]

\* The operation of call c has built its intent and entered send_transaction.
Entered(c) == DOMAIN transaction[c] # {}

-----------------------------------------------------------------------------
(* Claims *)

\* C1: a call in which a stage of send_transaction failed never yields a value:
\* its future is resolved at most once and never to a result, and the finished
\* call has raised, exactly the exception the future holds when the failure went
\* through the future.
C1_FailureObservedOnce ==
    \A c \in Calls :
        /\ future[c].sets <= 1
        /\ StageFailed(c) =>
              /\ future[c].state # "result"
              /\ outcome[c].kind # "return"
              /\ pc[c] \in {"resolved", "done"}
              /\ pc[c] = "resolved" => future[c].state = "exception" /\ future[c].sets = 1
              /\ pc[c] = "done" =>
                    /\ outcome[c].kind = "raise"
                    /\ future[c].state = "exception" => outcome[c].value = future[c].value
                    /\ future[c].state = "pending" => future[c].sets = 0

\* C1 witness: a call whose receipt wait failed after its transaction was sent
\* has finished, and another whose gas estimation failed has finished too.
C1_Witness ==
    \E c, d \in Calls :
        /\ pc[c] = "done" /\ FailedStages(c) = {"waitForTransactionReceipt"}
        /\ future[c].sets = 1
        /\ pc[d] = "done" /\ FailedStages(d) = {"estimateGas"}

\* C2: when sendRawTransaction and the receipt wait both succeeded, the future is
\* resolved exactly once, to a receipt whose hash is the hash this call's
\* sendRawTransaction returned and no other call's, and send_transaction returns
\* that receipt.
C2_ReceiptOfOwnHash ==
    \A c \in Calls :
        (Succeeded(c, "sendRawTransaction") /\ Succeeded(c, "waitForTransactionReceipt")) =>
            /\ future[c].sets = 1
            /\ future[c].state = "result"
            /\ future[c].value[1].transactionHash = tx_hash[c][1]
            /\ tx_hash[c][1] = TxHash(signed_tx[c][1])
            /\ \A d \in Calls \ {c} :
                  tx_hash[d] # <<>> => future[c].value[1].transactionHash # tx_hash[d][1]
            /\ (pc[c] = "done" /\ req[c].op = "send_transaction") =>
                  outcome[c] = [kind |-> "return", value |-> future[c].value]

\* C2 witness: two calls have both been sent and mined, and both have returned
\* from the receipt wait.
C2_Witness ==
    \E c, d \in Calls :
        /\ c # d
        /\ Succeeded(c, "waitForTransactionReceipt")
        /\ Succeeded(d, "waitForTransactionReceipt")
        /\ pc[c] = "done" /\ req[c].op = "send_transaction"

\* C3: a field of gas, gasPrice, nonce that is present in the intent passed to
\* send_transaction keeps the caller's value, is signed with that value, and its
\* chain query is never issued; a field that was absent is signed only after its
\* query succeeded.
C3_PresentFieldsKept ==
    \A c \in Calls :
        Entered(c) =>
            LET passed == DOMAIN Passed(c) \cap CompletedFields
                queried == {log[c][i].call : i \in 1..Len(log[c])}
            IN  \A f \in CompletedFields :
                    IF f \in passed
                    THEN /\ transaction[c][f] = Passed(c)[f]
                         /\ QueryOf(f) \notin queried
                         /\ signed_tx[c] # <<>> => signed_tx[c][1][f] = Passed(c)[f]
                    ELSE signed_tx[c] # <<>> => Succeeded(c, QueryOf(f))

\* C3 witness: an intent with only its nonce present has been signed after the
\* chain's transaction count for the sender moved past the caller's nonce.
C3_Witness ==
    \E c \in Calls :
        /\ req[c].op = "send_transaction"
        /\ req[c].present = {"nonce"}
        /\ signed_tx[c] # <<>>
        /\ txCount[AccountAddress(req[c].sender)] > signed_tx[c][1].nonce

\* C4 (as claimed): while a call waits for its receipt, the event loop is free to
\* run the other tasks that are ready (another call's field completion, signing
\* or sendRawTransaction).
C4_WaitDoesNotBlock ==
    \A c \in Calls : (pc[c] = "wait" /\ ready # <<>>) => ENABLED Dispatch

\* C5: a call whose intent has no nonce signs with the sender's transaction count
\* as the chain reports it at the moment of the call's one query: nothing is
\* added for transactions of the same sender that other calls have signed or sent.
C5_NonceReadAfresh ==
    [][\A c \in Calls :
          (pc[c] = "nonce" /\ pc'[c] = "sign" /\ "nonce" \notin DOMAIN Passed(c)) =>
              /\ transaction'[c]["nonce"] = txCount[AccountAddress(req[c].sender)]
              /\ Cardinality({i \in 1..Len(log'[c]) :
                                 log'[c][i].call = "getTransactionCount"}) = 1]_vars

\* C5 witness: two calls of one sender, both without a nonce in their intent, are
\* both signed and not yet sent, with the same nonce.
C5_Witness ==
    \E c, d \in Calls :
        /\ c # d
        /\ pc[c] = "send" /\ pc[d] = "send"
        /\ req[c].sender = req[d].sender
        /\ "nonce" \notin DOMAIN Passed(c) /\ "nonce" \notin DOMAIN Passed(d)
        /\ signed_tx[c][1].nonce = signed_tx[d][1].nonce

\* C6 (as claimed): when sendRawTransaction returned a hash and the receipt wait
\* failed, the exception the caller receives carries that hash.
C6_FailureExposesHash ==
    \A c \in Calls :
        (pc[c] = "done" /\ FailedStages(c) = {"waitForTransactionReceipt"}) =>
            /\ outcome[c].kind = "raise"
            /\ tx_hash[c][1] \in Range(outcome[c].value[1].args)

\* C7: in one call the collaborator calls follow the order of the code with none
\* repeated, a failed call is the last thing the invocation does, an invocation
\* that failed before sendRawTransaction has sent nothing and is over, and the
\* node has accepted exactly one transaction per successful sendRawTransaction.
C7_NoRetryFailFast ==
    /\ \A c \in Calls :
          /\ \A i \in 1..Len(log[c]) :
                /\ ~log[c][i].ok => i = Len(log[c])
                /\ i > 1 => StageIndex(log[c][i - 1].call) < StageIndex(log[c][i].call)
          /\ (Len(log[c]) > 0 /\ ~log[c][Len(log[c])].ok
                /\ StageIndex(log[c][Len(log[c])].call) < StageIndex("sendRawTransaction")) =>
                /\ tx_hash[c] = <<>>
                /\ pc[c] = "done"
    /\ Len(broadcast) = Cardinality({c \in Calls : tx_hash[c] # <<>>})
    /\ \A c \in Calls : tx_hash[c] # <<>> <=> Succeeded(c, "sendRawTransaction")

\* C7 witness: one call has finished on a rejected sendRawTransaction after
\* completing all three fields, another on a failed nonce query.
C7_Witness ==
    \E c, d \in Calls :
        /\ pc[c] = "done" /\ FailedStages(c) = {"sendRawTransaction"} /\ Len(log[c]) = 5
        /\ pc[d] = "done" /\ FailedStages(d) = {"getTransactionCount"}

\* The intent of call c names a `from` that is not the signing account's address.
Mismatched(c) ==
    /\ Entered(c)
    /\ Passed(c)["from"] # AccountAddress(req[c].sender)

\* C8 (as claimed): a call whose `from` is not the signer's address ends in the
\* caller error of the signer.
C8_MismatchIsCallerError ==
    \A c \in Calls :
        (Mismatched(c) /\ pc[c] = "done") =>
            outcome[c] = [kind |-> "raise",
                          value |-> <<[type |-> "TypeError", args |-> <<>>]>>]

\* C8 (amended): a call whose `from` is not the signer's address never signs and
\* never sends; it ends in an exception, which is the signer's TypeError unless a
\* field-completion query failed first.
C8_MismatchNeverSent ==
    \A c \in Calls :
        Mismatched(c) =>
            /\ signed_tx[c] = <<>>
            /\ tx_hash[c] = <<>>
            /\ Entries(c, "sendRawTransaction") = {}
            /\ pc[c] \in {"gas", "gasPrice", "nonce", "sign", "done"}
            /\ pc[c] = "done" =>
                  /\ outcome[c].kind = "raise"
                  /\ \/ /\ FailedStages(c) = {"sign_transaction"}
                        /\ outcome[c].value = <<[type |-> "TypeError", args |-> <<>>]>>
                     \/ /\ FailedStages(c) # {}
                        /\ FailedStages(c) \subseteq
                              {"estimateGas", "generateGasPrice", "getTransactionCount"}

\* C8 witness: a call with a mismatched `from` and no completed field has made
\* its three queries and finished with the signer's TypeError.
C8_Witness ==
    \E c \in Calls :
        /\ Mismatched(c)
        /\ req[c].present = {}
        /\ pc[c] = "done"
        /\ FailedStages(c) = {"sign_transaction"}
        /\ Len(log[c]) = 4

\* C9 (as claimed): two finished calls that failed in different stages received
\* different failure values.
C9_FailureIdentifiesStage ==
    \A c, d \in Calls :
        (/\ pc[c] = "done" /\ pc[d] = "done"
         /\ StageFailed(c) /\ StageFailed(d)
         /\ FailedStages(c) # FailedStages(d)) =>
            outcome[c].value # outcome[d].value

\* The `to` of the intent each state-mutating operation passes: the recipient
\* for a native transfer or a direct call (the recipient in the dict, also when
\* the dict was used before), the contract for a contract call, the empty
\* address for a deployment.
TargetOf(r) ==
    CASE r.object # 0 -> req[r.object].recipient
      [] r.op \in {"transfer", "send_transaction"} -> r.recipient
      [] r.op = "claim_tfc" -> ManagerAddress
      [] r.op = "deploy_tfc_manager" -> EmptyAddress
      [] r.op \in {"token_transfer", "transfer_from", "approve"} -> TokenAddress

\* C10 (as claimed): a state-mutating operation passes one intent, from the
\* acting account to the target, to send_transaction once and finishes with what
\* that call produced: the receipt on success, the same exception on failure.
C10_OperationReturnsOutcome ==
    \A c \in Calls :
        (req[c].op \in Ops \ {"send_transaction"} /\ Entered(c)) =>
            /\ Passed(c)["from"] = AccountAddress(req[c].sender)
            /\ Passed(c)["to"] = TargetOf(req[c])
            /\ future[c].sets <= 1
            /\ pc[c] = "done" =>
                  /\ future[c].state = "result" =>
                        outcome[c] = [kind |-> "return", value |-> future[c].value]
                  /\ future[c].state = "exception" =>
                        outcome[c] = [kind |-> "raise", value |-> future[c].value]

\* C11 (as claimed): a call cancelled before its raw transaction was sent sends
\* no transaction afterwards, and nothing more is done or raised in that call:
\* its last collaborator call remains the signing.
C11_CancelBeforeSendIsNoOp ==
    \A c \in Calls :
        future[c].state = "cancelled" =>
            /\ tx_hash[c] = <<>>
            /\ log[c][Len(log[c])].call = "sign_transaction"

\* C12 (as claimed): a call whose intent has no gasPrice takes the price from the
\* strategy the application configured on the shared client, and leaves that
\* strategy configured.
C12_ConfiguredStrategyKept ==
    [][\A c \in Calls :
          (strategy = "custom" /\ pc[c] = "gasPrice" /\ pc'[c] # "gasPrice"
             /\ "gasPrice" \notin DOMAIN transaction[c]) =>
              /\ strategy' = "custom"
              /\ pc'[c] = "nonce" => transaction'[c]["gasPrice"] = GasPriceOf(strategy)]_vars

\* The index of the last entry of call c's log.
Last(c) == Len(log[c])

\* C13: a call signs only when gas, gasPrice and nonce are all in its intent and
\* after every query it made; what it signs is that populated intent; what the
\* node receives from it is the transaction this call signed; the receipt wait
\* follows a successful sendRawTransaction; and the future leaves the pending
\* state only when the receipt wait has returned or sendRawTransaction or the
\* wait has failed.
C13_StagesInOrder ==
    /\ \A c \in Calls :
          /\ signed_tx[c] # <<>> =>
                /\ CompletedFields \subseteq DOMAIN transaction[c]
                /\ \A f \in CompletedFields : signed_tx[c][1][f] = transaction[c][f]
                /\ signed_tx[c][1].signer = AccountAddress(req[c].sender)
                /\ signed_tx[c][1].to = IF "to" \in DOMAIN transaction[c]
                                         THEN transaction[c]["to"] ELSE None
                /\ signed_tx[c][1].value = transaction[c]["value"]
                /\ signed_tx[c][1].data = IF "data" \in DOMAIN transaction[c]
                                           THEN transaction[c]["data"] ELSE <<>>
                /\ \A i \in Entries(c, "sign_transaction") :
                      \A j \in 1..Last(c) :
                          log[c][j].call \in {QueryOf(f) : f \in CompletedFields} => j < i
          /\ signed_tx[c] = <<>> => Entries(c, "sendRawTransaction") = {}
          /\ tx_hash[c] # <<>> =>
                /\ signed_tx[c] # <<>>
                /\ tx_hash[c][1] = TxHash(signed_tx[c][1])
                /\ signed_tx[c][1] \in Range(broadcast)
          /\ \A i \in Entries(c, "sendRawTransaction") :
                i > 1 /\ log[c][i - 1] = [call |-> "sign_transaction", ok |-> TRUE]
          /\ \A i \in Entries(c, "waitForTransactionReceipt") :
                i > 1 /\ log[c][i - 1] = [call |-> "sendRawTransaction", ok |-> TRUE]
          /\ future[c].state = "pending" <=>
                (Last(c) = 0 \/ log[c][Last(c)].call \notin
                                   {"sendRawTransaction", "waitForTransactionReceipt"}
                    \/ log[c][Last(c)] = [call |-> "sendRawTransaction", ok |-> TRUE])
          /\ future[c].state = "result" <=>
                (Last(c) > 0 /\ log[c][Last(c)] =
                                   [call |-> "waitForTransactionReceipt", ok |-> TRUE])
    /\ \A i \in 1..Len(broadcast) :
          \E c \in Calls : tx_hash[c] # <<>> /\ signed_tx[c] = <<broadcast[i]>>

\* C13 witness: a call that supplied its own gasPrice and fetched gas and nonce
\* has gone through all the stages and its future holds the receipt.
C13_Witness ==
    \E c \in Calls :
        /\ req[c].op = "send_transaction"
        /\ req[c].present = {"gasPrice"}
        /\ future[c].state = "result"
        /\ Len(log[c]) = 5
        /\ \A i \in 1..Len(log[c]) : log[c][i].ok

\* C14 (as claimed): the intent deploy_tfc_manager passes to send_transaction
\* has no `to` field, the manager bytecode as data and the deployer as `from`.
C14_CreationIntentHasNoTo ==
    \A c \in Calls :
        (req[c].op = "deploy_tfc_manager" /\ Entered(c)) =>
            /\ "to" \notin DOMAIN transaction[c]
            /\ transaction[c]["data"] = Bytecode
            /\ transaction[c]["from"] = AccountAddress(req[c].sender)

\* What deploy_tfc_manager does before it calls send_transaction.
DeploySetup == {"abi", "bytecode", "buildTransaction"}

\* C14 (amended): deploy_tfc_manager loads the ABI and the bytecode and builds
\* one creation intent: `to` the empty address, the manager bytecode as data, the
\* deployer as `from`. When loading or building fails nothing is passed to
\* send_transaction and that failure is raised. Otherwise the one intent is
\* signed at most once and sent at most once; the operation returns only when
\* exactly one transaction was signed and sent and its receipt arrived, and then
\* returns the contractAddress of that receipt; in every other case it raises the
\* failure and returns no address.
C14_DeployReturnsContractAddress ==
    \A c \in Calls :
        req[c].op = "deploy_tfc_manager" =>
            /\ Entered(c) =>
                  /\ transaction[c]["to"] = EmptyAddress
                  /\ transaction[c]["data"] = Bytecode
                  /\ transaction[c]["from"] = AccountAddress(req[c].sender)
                  /\ \A i \in 1..Len(log[c]) : log[c][i].call \notin DeploySetup
            /\ (~Entered(c) /\ pc[c] = "done") =>
                  /\ Len(log[c]) = 1
                  /\ log[c][1].call \in DeploySetup /\ ~log[c][1].ok
                  /\ outcome[c].kind = "raise"
                  /\ outcome[c].value[1] \in RpcErrors("buildTransaction")
                                                \cup {FileNotFoundError}
                  /\ signed_tx[c] = <<>> /\ tx_hash[c] = <<>>
            /\ Cardinality(Entries(c, "sign_transaction")) <= 1
            /\ Cardinality(Entries(c, "sendRawTransaction")) <= 1
            /\ Cardinality({i \in 1..Len(broadcast) :
                               signed_tx[c] = <<broadcast[i]>>}) <= 1
            /\ signed_tx[c] # <<>> =>
                  /\ IsCreation(signed_tx[c][1])
                  /\ signed_tx[c][1].data = Bytecode
                  /\ signed_tx[c][1].signer = AccountAddress(req[c].sender)
            /\ pc[c] = "done" =>
                  IF future[c].state = "result"
                  THEN /\ Cardinality(Entries(c, "sign_transaction")) = 1
                       /\ Cardinality(Entries(c, "sendRawTransaction")) = 1
                       /\ Succeeded(c, "sendRawTransaction")
                       /\ Cardinality({i \in 1..Len(broadcast) :
                                          signed_tx[c] = <<broadcast[i]>>}) = 1
                       /\ future[c].value[1].transactionHash = TxHash(signed_tx[c][1])
                       /\ outcome[c] = [kind |-> "return",
                                        value |-> <<ContractAddress(signed_tx[c][1])>>]
                  ELSE /\ outcome[c].kind = "raise"
                       /\ Len(log[c]) > 0 /\ ~log[c][Len(log[c])].ok
                       /\ future[c].state = "exception" => outcome[c].value = future[c].value

\* C14 witness: an account that already has a mined transaction has deployed the
\* manager and the operation has returned the address of the new contract.
C14_Witness ==
    \E c \in Calls :
        /\ req[c].op = "deploy_tfc_manager"
        /\ pc[c] = "done"
        /\ outcome[c].kind = "return"
        /\ outcome[c].value = <<<<"A", 1>>>>

\* The signature string of the claim is an even number of hex digits.
WellFormed(hexstr) == Decodable(hexstr) /\ Len(hexstr) % 2 = 0

\* C15 (as claimed): claim_tfc with a signature that is not well-formed hex
\* raises before an intent is built, and nothing is signed or sent; with
\* well-formed hex the intent carries the decoded bytes as the signature.
C15_MalformedSignatureRejected ==
    \A c \in Calls :
        req[c].op = "claim_tfc" =>
            IF WellFormed(req[c].signature)
            THEN Entered(c) =>
                    /\ Len(transaction[c]["data"][4]) * 2 = Len(req[c].signature)
                    /\ \A i \in 1..Len(transaction[c]["data"][4]) :
                          transaction[c]["data"][4][i] =
                              16 * HexValue(req[c].signature[2 * i - 1])
                                 + HexValue(req[c].signature[2 * i])
            ELSE /\ ~Entered(c)
                 /\ signed_tx[c] = <<>>
                 /\ tx_hash[c] = <<>>
                 /\ pc[c] \in {"queued", "done"}
                 /\ pc[c] = "done" => outcome[c].kind = "raise"

\* C16: a read-only operation never builds, signs or sends a transaction and
\* resolves no future: the only thing it does is one query; and no step of a
\* read-only operation changes the transactions the node holds, the mined
\* transactions, or any account's nonce or balance.
C16_ReadsLeaveChainAlone ==
    /\ [](\A c \in Calls :
             req[c].op \in ReadOps =>
                 /\ transaction[c] = <<>>
                 /\ signed_tx[c] = <<>>
                 /\ tx_hash[c] = <<>>
                 /\ future[c] = PendingFuture
                 /\ Len(log[c]) <= 1
                 /\ \A i \in 1..Len(log[c]) : log[c][i].call \in {"eth_call", "getBalance"})
    /\ [][\A c \in Calls :
             (req'[c].op \in ReadOps /\ <<pc[c], log[c], outcome[c]>>
                                            # <<pc'[c], log'[c], outcome'[c]>>) =>
                 /\ broadcast' = broadcast
                 /\ mined' = mined
                 /\ \A a \in Address :
                       /\ txCount'[a] = txCount[a]
                       /\ getBalance(a)' = getBalance(a)]_vars

\* C16 witness: after a transfer was mined, the sender's balance has been read
\* and is what the transfer left, and nothing but the transfer was ever sent.
C16_Witness ==
    \E c \in Calls :
        /\ req[c].op = "balance_of"
        /\ pc[c] = "done"
        /\ outcome[c].kind = "return"
        /\ outcome[c].value[1] < 1000
        /\ Len(broadcast) = 1

\* The last call before c that was given the intent object of call c.
Previous(c) ==
    CHOOSE d \in Calls :
        /\ d < c
        /\ d = req[c].object \/ req[d].object = req[c].object
        /\ \A e \in Calls :
              (e < c /\ (e = req[c].object \/ req[e].object = req[c].object)) => e <= d

\* C17: a call leaves the fields it fetched in the intent object it was given,
\* and no step changes the intent of a call that has signed; so a call given an
\* object with which an earlier call has signed finds the three fields there,
\* makes no query, and signs, if it signs, with the nonce the earlier call used,
\* whatever the chain's count has become.
C17_IntentKeepsFetchedFields ==
    /\ [](\A c \in Calls :
             (req[c].object # 0 /\ Entered(c) /\ signed_tx[Previous(c)] # <<>>) =>
                 /\ transaction[c] = transaction[Previous(c)]
                 /\ \A f \in CompletedFields :
                       /\ f \in DOMAIN transaction[c]
                       /\ Entries(c, QueryOf(f)) = {}
                 /\ signed_tx[c] # <<>> =>
                       signed_tx[c][1].nonce = signed_tx[Previous(c)][1].nonce)
    /\ [][\A c \in Calls :
             signed_tx[c] # <<>> => transaction'[c] = transaction[c]]_vars

\* C17 witness: an intent passed without any of the three fields was signed,
\* sent and mined, and a second call with the same object has signed with the
\* same nonce, which is now behind the sender's transaction count.
C17_Witness ==
    \E c \in Calls :
        /\ req[c].object # 0
        /\ signed_tx[c] # <<>>
        /\ req[Previous(c)].present = {}
        /\ signed_tx[Previous(c)] # <<>>
        /\ signed_tx[Previous(c)][1] \in mined
        /\ signed_tx[c][1].nonce < txCount[AccountAddress(req[c].sender)]

\* C18: every call that was started finishes, returning or raising, and every
\* call suspended on its future sees the future resolved.
C18_EveryCallFinishes ==
    \A c \in Calls :
        /\ (pc[c] = "queued") ~> (pc[c] = "done" /\ outcome[c].kind \in {"return", "raise"})
        /\ (pc[c] = "send") ~> (future[c].state # "pending")

\* C18 witness: one call has returned, and another, whose transaction was never
\* mined, has finished with the time-out of its receipt wait.
C18_Witness ==
    \E c, d \in Calls :
        /\ pc[c] = "done" /\ outcome[c].kind = "return"
        /\ pc[d] = "done" /\ outcome[d].kind = "raise"
        /\ outcome[d].value[1].type = "TimeExhausted"

\* C19: the calls sign in the order they were started; when a call makes its
\* sendRawTransaction, every call that signed before it has made its own; and
\* while a call that has passed its nonce stage has not yet signed, no other call
\* takes a step.
C19_SendsFollowSigningOrder ==
    [][\A c \in Calls :
          /\ (signed_tx[c] = <<>> /\ signed_tx'[c] # <<>>) =>
                \A d \in Calls : d > c => signed_tx[d] = <<>>
          /\ (pc[c] = "send" /\ pc'[c] # "send") =>
                \A d \in Calls :
                    (d < c /\ signed_tx[d] # <<>>) => Entries(d, "sendRawTransaction") # {}
          /\ pc[c] = "sign" =>
                \A d \in Calls \ {c} :
                    /\ pc'[d] = pc[d]
                    /\ log'[d] = log[d]
                    /\ transaction'[d] = transaction[d]
                    /\ signed_tx'[d] = signed_tx[d]
                    /\ tx_hash'[d] = tx_hash[d]]_vars

\* C19 witness: two calls signed different transactions one after the other, and
\* the node holds the two in that order.
C19_Witness ==
    \E c, d \in Calls :
        /\ c < d
        /\ tx_hash[c] # <<>> /\ tx_hash[d] # <<>>
        /\ signed_tx[c] # signed_tx[d]
        /\ broadcast = <<signed_tx[c][1], signed_tx[d][1]>>
        /\ pc[d] = "wait"

====
